---- MODULE Spec2Model ----
(***************************************************************************)
(* Model of flow_info.flows_cache.FlowsCache: the snapshot files and the   *)
(* functools.cache in front of them, the run-list refresh, the staleness   *)
(* check of summary(), and the concurrent run-log backfill                 *)
(* (update_run_logs / _update_run_logs_loop / _update_single_run_log).     *)
(***************************************************************************)
EXTENDS Integers, Sequences, FiniteSets, TLC

\* ------------------------------------------------------------------ bounds
\* Number of runs the remote service can come to hold.
MaxRuns == 3
\* Largest worker pool the pool-size specification draws from.
MaxPool == 3
\* Number of runs on one page of the remote's paginated run listing.
PageSize == 2
\* Largest soft limit passed to update_runs (0 = no limit).
MaxLimit == 2

\* ------------------------------------------------------- program constants
\* `for i in range(3)`: the size of the worker pool.
NumWorkers == 3

RunIds == 1..MaxRuns
Files == {"runs", "flows", "logs"}

VARIABLES
    file,        \* the snapshot files on disk: Files -> [kind, doc]
    cache,       \* functools.cache of _load_data: Files -> [cached, val]
    nRemote,     \* the remote service holds the runs 1..nRemote
    pc,          \* position of update_run_logs: idle, loop, sleep, join, done
    pool,        \* number of worker tasks of the running backfill
    queue,       \* fetch_queue: sequence of run ids not yet taken
    unfinished,  \* fetch_queue._unfinished_tasks (put minus task_done)
    workers,     \* worker task -> [st, run]
    run_logs,    \* the in-memory run_logs["logs"] map of the backfill
    aliased,     \* run_logs is the very object functools.cache holds
    initial_size,\* fetch_queue.qsize() when the workers are created
    hasCallback, \* update_run_logs was given a callback
    progress,    \* arguments of the last callback invocation
    ret,         \* what the last operation returned or raised
    hist,        \* history of the backfill and of the cache, for the claims
    fi           \* the FlowInfo object: its inputs, position and results

vars == <<file, cache, nRemote, pc, pool, queue, unfinished, workers,
          run_logs, aliased, initial_size, hasCallback, progress, ret, hist,
          fi>>

vars_but_nRemote ==
    <<file, cache, pc, pool, queue, unfinished, workers, run_logs, aliased,
      initial_size, hasCallback, progress, ret, hist, fi>>

\* ------------------------------------------------------------ remote service
\* completion_time of run r (an ISO-8601 string in the program; strings of
\* one format order like the instants they denote).  Two runs may share one.
CompletionTime(r) == (r + 1) \div 2

Run(r) == [run_id |-> r, completion_time |-> CompletionTime(r)]

\* list_runs(orderby completion_time DESC) over the runs 1..n: newest first.
RemoteRunsDesc(n) == [i \in 1..n |-> Run(n + 1 - i)]

\* flows_client.get_run_logs(run_id).data
RemoteLog(r) == [log_of |-> r]

\* list_flows(...).items()
RemoteFlows == << [id |-> 1] >>

\* --------------------------------------------------------------- JSON, files
EmptyMap == [r \in {} |-> RemoteLog(r)]

Put(m, r, v) == [x \in (DOMAIN m) \cup {r} |-> IF x = r THEN v ELSE m[x]]

Missing == [kind |-> "missing", doc |-> <<>>]
EmptyFile == [kind |-> "empty", doc |-> <<>>]
Corrupt == [kind |-> "corrupt", doc |-> <<>>]

\* json.dumps(data, indent=2): the text of a document.
json_dumps(d) == [kind |-> "json", doc |-> d]

\* Python values _load_data can return, and the exception it can raise.
PyList == [tag |-> "list", doc |-> <<>>]
PyNone == [tag |-> "none", doc |-> <<>>]
JSONDecodeError == [tag |-> "JSONDecodeError", doc |-> <<>>]

\* The body of _load_data: [] for no file, None for an empty file,
\* json.loads of the text otherwise (which raises on malformed text).
ReadFile(c) ==
    CASE c.kind = "missing" -> PyList
      [] c.kind = "empty" -> PyNone
      [] c.kind = "json" -> [tag |-> "doc", doc |-> c.doc]
      [] OTHER -> JSONDecodeError

IsExc(v) == v.tag = "JSONDecodeError"

\* Python truthiness of a loaded value: [] and None are false, a document
\* {"runs": ..} / {"flows": ..} / {"logs": ..} is a non-empty dict.
Truthy(v) == v.tag = "doc"

NotCached == [cached |-> FALSE, val |-> PyNone]
cache_clear == [f \in Files |-> NotCached]

\* @functools.cache _load_data(filename) evaluated with cache c: the value.
_load_data(c, f) == IF c[f].cached THEN c[f].val ELSE ReadFile(file[f])

\* ... and the cache afterwards (a raised call is not cached).
CacheAfterLoad(c, f) ==
    IF c[f].cached \/ IsExc(ReadFile(file[f])) THEN c
    ELSE [c EXCEPT ![f] = [cached |-> TRUE, val |-> ReadFile(file[f])]]

\* _save_data(filename, data): the files afterwards ...
_save_data(f, d) == [file EXCEPT ![f] = json_dumps(d)]

\* _save_data without its cache_clear(): the cache keeps what it held.
CacheAfterSaveKept == cache

\* ... and the cache afterwards: self._load_data.cache_clear()
CacheAfterSave == cache_clear

\* ------------------------------------------------------------------- history
NoSave == [saved |-> FALSE, doc |-> <<>>]

HistInit ==
    [ lastSaved |-> [f \in Files |-> NoSave],
      before |-> EmptyMap,
      fetched |-> {},
      starts |-> [r \in RunIds |-> 0],
      failed |-> {},
      interrupted |-> FALSE,
      localAtStart |-> <<>>,
      fileAtStart |-> Missing,
      prevClean |-> FALSE,
      afterClean |-> FALSE ]

NoRet == [op |-> "none", exc |-> ""]

Idle == pc \in {"idle", "done"}

TypeOK ==
    /\ nRemote \in 0..MaxRuns
    /\ pc \in {"idle", "loop", "sleep", "join", "done"}
    /\ pool \in 1..(IF MaxPool > NumWorkers THEN MaxPool ELSE NumWorkers)
    /\ unfinished \in 0..MaxRuns
    /\ aliased \in BOOLEAN
    /\ hasCallback \in BOOLEAN

InitWith(p) ==
    /\ \E k \in {Missing, EmptyFile, Corrupt} : file = [f \in Files |-> k]
    /\ cache = cache_clear
    /\ nRemote = 0
    /\ pc = "idle"
    /\ pool = p
    /\ queue = <<>>
    /\ unfinished = 0
    /\ workers = [w \in 1..p |-> [st |-> "cancelled", run |-> 0]]
    /\ run_logs = EmptyMap
    /\ aliased = FALSE
    /\ initial_size = 0
    /\ hasCallback = FALSE
    /\ progress = <<0, 0>>
    /\ ret = NoRet
    /\ hist = HistInit

\* No FlowInfo object has been made.
NoFlowInfo == [mode |-> "off"]

Init == InitWith(NumWorkers) /\ fi = NoFlowInfo

\* ------------------------------------------------------------- environment
\* A run completes on the remote service.
RemoteNewRun ==
    /\ Idle
    /\ nRemote < MaxRuns
    /\ nRemote' = nRemote + 1
    /\ UNCHANGED vars_but_nRemote

\* ------------------------------------------------------------------- reads
\* Control is inside the progress callback, which _update_run_logs_loop
\* invokes while the queue is not empty.
InCallback == pc = "loop" /\ hasCallback /\ queue # <<>>

\* The `runs` / `flows` properties: data["runs"] if data else [].
ListOf(v) == IF Truthy(v) THEN v.doc ELSE <<>>

\* get_run_logs: run_logs = _load_data(..) or {"logs": {}}.
LogsOf(v) == IF Truthy(v) THEN v.doc ELSE EmptyMap

get_run_logs(v, r) ==
    IF r \in DOMAIN LogsOf(v) THEN [tag |-> "log", log |-> LogsOf(v)[r]]
    ELSE [tag |-> "none", log |-> RemoteLog(0)]

ReadRet(op, f, v, val) ==
    IF IsExc(v) THEN [op |-> op, exc |-> v.tag, file |-> f]
    ELSE [op |-> op, exc |-> "", file |-> f, loaded |-> v, val |-> val]

\* The record of the last backfill is kept until the caller's next operation.
Forget == [HistInit EXCEPT !.lastSaved = hist.lastSaved]

\* An operation of the caller other than update_run_logs leaves the backfill's
\* state alone; made outside a backfill, it ends the record of the last one.
CallerFrame ==
    /\ IF Idle
       THEN pc' = "idle" /\ hasCallback' = FALSE /\ progress' = <<0, 0>>
       ELSE UNCHANGED <<pc, hasCallback, progress>>
    /\ UNCHANGED <<pool, queue, unfinished, workers, run_logs, aliased,
                   initial_size, fi>>

ReadFrame ==
    /\ CallerFrame
    /\ hist' = IF Idle THEN Forget ELSE hist
    /\ UNCHANGED <<file, nRemote>>

\* fc.runs
ReadRuns ==
    /\ Idle
    /\ ret' = ReadRet("runs", "runs", _load_data(cache, "runs"),
                      ListOf(_load_data(cache, "runs")))
    /\ cache' = CacheAfterLoad(cache, "runs")
    /\ ReadFrame

\* fc.flows
ReadFlows ==
    /\ Idle
    /\ ret' = ReadRet("flows", "flows", _load_data(cache, "flows"),
                      ListOf(_load_data(cache, "flows")))
    /\ cache' = CacheAfterLoad(cache, "flows")
    /\ ReadFrame

\* fc.get_run_logs(run_id), by the caller or by its progress callback.
ReadRunLogs ==
    /\ Idle \/ InCallback
    /\ \E r \in RunIds :
          ret' = [ReadRet("get_run_logs", "logs", _load_data(cache, "logs"),
                          get_run_logs(_load_data(cache, "logs"), r))
                  EXCEPT !.op = "get_run_logs"] @@ [run_id |-> r]
    /\ cache' = CacheAfterLoad(cache, "logs")
    /\ ReadFrame

\* ------------------------------------------------------------ run-list refresh
NumPages(n) == IF n = 0 THEN 1 ELSE (n + PageSize - 1) \div PageSize

\* Page i of flows_client.paginated.list_runs(orderby completion_time DESC).
Page(n, i) ==
    SubSeq(RemoteRunsDesc(n), (i - 1) * PageSize + 1,
           IF i * PageSize < n THEN i * PageSize ELSE n)

\* The for loop of update_runs from page i on: the runs accumulated and the
\* counts yielded.
RECURSIVE update_runs_loop(_, _, _, _, _, _)
update_runs_loop(n, i, runs, runs_collected, limit, yields) ==
    IF i > NumPages(n) THEN [runs |-> runs, yields |-> yields]
    ELSE IF limit # 0 /\ runs_collected > limit
         THEN [runs |-> runs \o Page(n, i), yields |-> yields]
         ELSE update_runs_loop(n, i + 1, runs \o Page(n, i),
                               runs_collected + Len(Page(n, i)), limit,
                               Append(yields, runs_collected + Len(Page(n, i))))

update_runs(limit) == update_runs_loop(nRemote, 1, <<>>, 0, limit, <<>>)

Saved(h, f, d) == [h EXCEPT !.lastSaved[f] = [saved |-> TRUE, doc |-> d]]

\* fc.update_runs(limit), iterated to exhaustion.
UpdateRuns ==
    /\ Idle
    /\ \E limit \in 0..MaxLimit :
          /\ file' = _save_data("runs", update_runs(limit).runs)
          /\ hist' = Saved(Forget, "runs", update_runs(limit).runs)
          /\ ret' = [op |-> "update_runs", exc |-> "", limit |-> limit,
                     yields |-> update_runs(limit).yields]
    /\ cache' = CacheAfterSave
    /\ CallerFrame
    /\ UNCHANGED nRemote

\* fc.update_flows()
UpdateFlows ==
    /\ Idle
    /\ file' = _save_data("flows", RemoteFlows)
    /\ hist' = Saved(Forget, "flows", RemoteFlows)
    /\ cache' = CacheAfterSave
    /\ ret' = [op |-> "update_flows", exc |-> ""]
    /\ CallerFrame
    /\ UNCHANGED nRemote

\* ------------------------------------------------------------ staleness check
\* sorted(runs, key=completion_time, reverse=True): stable, equal keys keep
\* their order.  Insert x behind every element whose key is >= its own.
RECURSIVE InsertDesc(_, _)
InsertDesc(s, x) ==
    IF s = <<>> THEN <<x>>
    ELSE IF Head(s).completion_time >= x.completion_time
         THEN <<Head(s)>> \o InsertDesc(Tail(s), x)
         ELSE <<x>> \o s

RECURSIVE SortedDesc(_)
SortedDesc(runs) ==
    IF runs = <<>> THEN <<>>
    ELSE InsertDesc(SortedDesc(SubSeq(runs, 1, Len(runs) - 1)), runs[Len(runs)])

\* dict.get("completion_time"): the value, or None for a dict without it.
NoTime == [some |-> FALSE, t |-> 0]
SomeTime(t) == [some |-> TRUE, t |-> t]

\* get_last_cached_run sorting without reverse=True: the oldest run first.
get_last_cached_run_oldest(runs) ==
    IF runs = <<>> THEN NoTime
    ELSE SomeTime(SortedDesc(runs)[Len(runs)].completion_time)

\* get_last_cached_run(runs).get("completion_time")
get_last_cached_run(runs) ==
    IF runs = <<>> THEN NoTime
    ELSE SomeTime(SortedDesc(runs)[1].completion_time)

\* get_last_run(): runs.data["runs"][0] of list_runs(limit 1, newest first);
\* indexing an empty list raises IndexError.
get_last_run_raises == nRemote = 0
get_last_run == RemoteRunsDesc(nRemote)[1]

cache_up_to_date(runs) ==
    SomeTime(get_last_run.completion_time) = get_last_cached_run(runs)

\* fc.summary()
Summary ==
    /\ Idle
    /\ LET v == _load_data(cache, "runs")
           c1 == CacheAfterLoad(cache, "runs")
           w == _load_data(c1, "flows")
           c2 == CacheAfterLoad(c1, "flows")
       IN  IF IsExc(v)
           THEN /\ ret' = [op |-> "summary", exc |-> v.tag, remote |-> nRemote]
                /\ cache' = c1
           ELSE IF IsExc(w)
           THEN /\ ret' = [op |-> "summary", exc |-> w.tag, remote |-> nRemote]
                /\ cache' = c2
           ELSE IF get_last_run_raises
           THEN /\ ret' = [op |-> "summary", exc |-> "IndexError",
                           remote |-> nRemote, runs |-> ListOf(v)]
                /\ cache' = c2
           ELSE /\ ret' = [op |-> "summary", exc |-> "", remote |-> nRemote,
                           runs |-> ListOf(v),
                           cache_up_to_date |-> cache_up_to_date(ListOf(v))]
                /\ cache' = c2
    /\ ReadFrame

\* --------------------------------------------------------- run-log backfill
\* The queue prepared by _update_run_logs_loop: in the order of self.runs, the
\* run_id of every run that has no entry in run_logs["logs"].
\* A queue prepared without the `not in run_logs["logs"]` test.
fetch_queue_all(runs, logs) == [i \in 1..Len(runs) |-> runs[i].run_id]

RECURSIVE fetch_queue(_, _)
fetch_queue(runs, logs) ==
    IF runs = <<>> THEN <<>>
    ELSE IF Head(runs).run_id \notin DOMAIN logs
         THEN <<Head(runs).run_id>> \o fetch_queue(Tail(runs), logs)
         ELSE fetch_queue(Tail(runs), logs)

Cached(v) == [cached |-> TRUE, val |-> v]

\* What update_run_logs returns or raises.
Returned == [op |-> "update_run_logs", exc |-> ""]
Raised(e) == [op |-> "update_run_logs", exc |-> e]

\* The history of a backfill that starts on the map `logs` and the list `runs`.
HistStart(logs, runs) ==
    [hist EXCEPT !.before = logs, !.fetched = {}, !.failed = {},
                 !.starts = [r \in RunIds |-> 0], !.interrupted = FALSE,
                 !.localAtStart = runs, !.fileAtStart = file["logs"],
                 !.afterClean = hist.prevClean /\ runs = hist.localAtStart,
                 !.prevClean = FALSE]

\* update_run_logs without its finally clause: leaving saves nothing.
FinallyUnsaved(logs) == file

\* The finally clause of update_run_logs: the snapshot files once the map
\* `logs` is saved.
Finally(logs) == _save_data("logs", logs)

\* update_run_logs() up to the first suspension of _update_run_logs_loop:
\* clear the cache, load the snapshot, prepare the queue, create the workers.
\* A malformed run-log snapshot raises before the try block; a malformed
\* run-list snapshot raises inside it, so the finally clause saves.
Start ==
    /\ Idle
    /\ hasCallback' \in BOOLEAN
    /\ LET v == ReadFile(file["logs"])
           c1 == [cache_clear EXCEPT !["logs"] = Cached(v)]
           rv == ReadFile(file["runs"])
       IN  IF IsExc(v)
           THEN /\ ret' = Raised(v.tag)
                /\ cache' = cache_clear
                /\ pc' = "done"
                /\ hist' = [hist EXCEPT !.prevClean = FALSE]
                /\ UNCHANGED <<file, queue, unfinished, workers, run_logs,
                               aliased, initial_size>>
           ELSE IF IsExc(rv)
           THEN /\ ret' = Raised(rv.tag)
                /\ file' = Finally(LogsOf(v))
                /\ cache' = CacheAfterSave
                /\ pc' = "done"
                /\ hist' = [Saved(hist, "logs", LogsOf(v)) EXCEPT !.prevClean = FALSE]
                /\ UNCHANGED <<queue, unfinished, workers, run_logs, aliased,
                               initial_size>>
           ELSE /\ ret' = NoRet
                /\ cache' = [c1 EXCEPT !["runs"] = Cached(rv)]
                /\ run_logs' = LogsOf(v)
                /\ aliased' = Truthy(v)
                /\ queue' = fetch_queue(ListOf(rv), LogsOf(v))
                /\ unfinished' = Len(queue')
                /\ initial_size' = Len(queue')
                /\ workers' = [w \in 1..pool |-> [st |-> "idle", run |-> 0]]
                /\ pc' = "loop"
                /\ hist' = HistStart(LogsOf(v), ListOf(rv))
                /\ UNCHANGED file
    /\ progress' = <<0, 0>>
    /\ UNCHANGED <<nRemote, pool, fi>>

Running == pc \in {"sleep", "join"}

\* A worker's `run_id = await queue.get()` and the start of its fetch.
WorkerGet(w) ==
    /\ Running
    /\ workers[w].st = "idle"
    /\ queue # <<>>
    /\ workers' = [workers EXCEPT ![w] = [st |-> "fetching", run |-> Head(queue)]]
    /\ queue' = Tail(queue)
    /\ hist' = [hist EXCEPT !.starts[Head(queue)] = @ + 1]
    /\ UNCHANGED <<file, cache, nRemote, pc, pool, unfinished, run_logs, aliased,
                   initial_size, hasCallback, progress, ret, fi>>

\* A worker that stores into a copy of the map: the shared map is unchanged.
StoreLogLocalCopy(logs, r) == logs

\* A worker that replaces the map by one holding only its own log.
StoreLogLost(logs, r) == Put(EmptyMap, r, RemoteLog(r))

\* The map after the worker's run_logs["logs"][run_id] = run_log.data
StoreLog(logs, r) == Put(logs, r, RemoteLog(r))

\* A worker that writes the snapshot file itself after it stored its log.
WorkerStoreAndSave(w) ==
    /\ Running
    /\ workers[w].st = "fetching"
    /\ run_logs' = StoreLog(run_logs, workers[w].run)
    /\ file' = _save_data("logs", run_logs')
    /\ cache' = cache_clear
    /\ unfinished' = unfinished - 1
    /\ workers' = [workers EXCEPT ![w] = [st |-> "idle", run |-> 0]]
    /\ hist' = [hist EXCEPT !.fetched = @ \cup {workers[w].run}]
    /\ UNCHANGED <<nRemote, pc, pool, queue, aliased, initial_size,
                   hasCallback, progress, ret, fi>>

\* The fetch returns: the worker stores the log and calls queue.task_done().
WorkerStore(w) ==
    /\ Running
    /\ workers[w].st = "fetching"
    /\ run_logs' = StoreLog(run_logs, workers[w].run)
    /\ cache' = IF aliased /\ cache["logs"].cached
                THEN [cache EXCEPT !["logs"].val.doc = run_logs']
                ELSE cache
    /\ unfinished' = unfinished - 1
    /\ workers' = [workers EXCEPT ![w] = [st |-> "idle", run |-> 0]]
    /\ hist' = [hist EXCEPT !.fetched = @ \cup {workers[w].run}]
    /\ UNCHANGED <<file, nRemote, pc, pool, queue, aliased, initial_size,
                   hasCallback, progress, ret, fi>>

\* The fetch raises: nothing catches it in the worker, whose task ends.
WorkerFail(w) ==
    /\ Running
    /\ workers[w].st = "fetching"
    /\ workers' = [workers EXCEPT ![w] = [st |-> "dead", run |-> workers[w].run]]
    /\ hist' = [hist EXCEPT !.failed = @ \cup {workers[w].run}]
    /\ UNCHANGED <<file, cache, nRemote, pc, pool, queue, unfinished, run_logs,
                   aliased, initial_size, hasCallback, progress, ret, fi>>

\* callback(initial_size - fetch_queue.qsize(), initial_size)
callback_args == <<initial_size - Len(queue), initial_size>>

\* `while not fetch_queue.empty()`: report progress and sleep, or go on to join.
LoopTest ==
    /\ pc = "loop"
    /\ IF queue # <<>>
       THEN /\ pc' = "sleep"
            /\ progress' = IF hasCallback THEN callback_args ELSE progress
       ELSE /\ pc' = "join"
            /\ UNCHANGED progress
    /\ ret' = NoRet
    /\ UNCHANGED <<file, cache, nRemote, pool, queue, unfinished, workers,
                   run_logs, aliased, initial_size, hasCallback, hist, fi>>

\* asyncio.sleep(1) is over.
Wake ==
    /\ pc = "sleep"
    /\ pc' = "loop"
    /\ UNCHANGED <<file, cache, nRemote, pool, queue, unfinished, workers,
                   run_logs, aliased, initial_size, hasCallback, progress, ret,
                   hist, fi>>

Stopped == [w \in 1..pool |-> [st |-> "cancelled", run |-> 0]]

\* asyncio.run is left: its tasks are cancelled and the locals of the loop are
\* gone.
Leave ==
    /\ workers' = Stopped
    /\ queue' = <<>>
    /\ unfinished' = 0
    /\ initial_size' = 0
    /\ run_logs' = EmptyMap
    /\ aliased' = FALSE
    /\ UNCHANGED fi

\* What update_run_logs hands its caller when KeyboardInterrupt reaches it.
OnInterrupt == Returned

\* fetch_queue.join() returns; callback(100, 100) (a TypeError when callback
\* is None); the workers are cancelled; the finally clause saves.
JoinDone ==
    /\ pc = "join"
    /\ unfinished = 0
    /\ IF hasCallback
       THEN ret' = Returned /\ progress' = <<100, 100>>
       ELSE ret' = Raised("TypeError") /\ UNCHANGED progress
    /\ file' = Finally(run_logs)
    /\ cache' = CacheAfterSave
    /\ hist' = [Saved(hist, "logs", run_logs) EXCEPT !.prevClean = TRUE]
    /\ pc' = "done"
    /\ Leave
    /\ UNCHANGED <<nRemote, pool, hasCallback>>

\* SIGINT while the loop is suspended: asyncio.run cancels the main task and
\* the workers and raises KeyboardInterrupt, which update_run_logs catches;
\* the finally clause saves.
Interrupt ==
    /\ Running
    /\ ret' = OnInterrupt
    /\ file' = Finally(run_logs)
    /\ cache' = CacheAfterSave
    /\ hist' = [Saved(hist, "logs", run_logs) EXCEPT !.interrupted = TRUE]
    /\ pc' = "done"
    /\ Leave
    /\ UNCHANGED <<nRemote, pool, hasCallback, progress>>

Next ==
    \/ RemoteNewRun
    \/ ReadRuns
    \/ ReadFlows
    \/ ReadRunLogs
    \/ UpdateRuns
    \/ UpdateFlows
    \/ Summary
    \/ Start
    \/ \E w \in 1..pool : WorkerGet(w)
    \/ \E w \in 1..pool : WorkerStore(w)
    \/ \E w \in 1..pool : WorkerFail(w)
    \/ LoopTest
    \/ Wake
    \/ JoinDone
    \/ Interrupt

\* The program: a pool of NumWorkers workers.
Spec == Init /\ [][Next]_vars

\* The program with the pool size made a parameter of the backfill.
InitPool == (\E p \in 1..MaxPool : InitWith(p)) /\ fi = NoFlowInfo

SpecPool == InitPool /\ [][Next]_vars

\* ------------------------------------------------------------------- claims
\* The run ids of the local run list that had no stored log when the last
\* backfill started.
LocalIds == {hist.localAtStart[i].run_id : i \in DOMAIN hist.localAtStart}
MissingAtStart == LocalIds \ DOMAIN hist.before

\* The persisted run-log map ({} when the snapshot holds no document).
PersistedLogs == LogsOf(ReadFile(file["logs"]))

\* C1: when a backfill is interrupted during fetching, the persisted run-log
\* snapshot holds, once update_run_logs is left, every log the snapshot held
\* before the backfill and every log whose fetch had completed.
C1_InterruptKeepsFetched ==
    (pc = "done" /\ hist.interrupted) =>
        /\ file["logs"].kind = "json"
        /\ \A r \in DOMAIN hist.before :
              r \in DOMAIN PersistedLogs /\ PersistedLogs[r] = hist.before[r]
        /\ \A r \in hist.fetched :
              r \in DOMAIN PersistedLogs /\ PersistedLogs[r] = RemoteLog(r)

\* An interrupted backfill that started on stored logs, had completed a fetch
\* and left another run unfetched.
C1_Witness ==
    /\ pc = "done"
    /\ hist.interrupted
    /\ DOMAIN hist.before # {}
    /\ hist.fetched # {}
    /\ MissingAtStart \ hist.fetched # {}

\* C2: an interrupted backfill re-signals the cancellation: update_run_logs
\* ends by raising KeyboardInterrupt to its caller.
C2_CancellationResignalled ==
    (pc = "done" /\ hist.interrupted) => ret.exc = "KeyboardInterrupt"

\* C3: a backfill run right after a completed backfill, on the same local run
\* list, starts no fetch and leaves the run-log snapshot as the first wrote it.
C3_Idempotent ==
    hist.afterClean =>
        /\ \A r \in RunIds : hist.starts[r] = 0
        /\ pc = "done" => file["logs"] = hist.fileAtStart

\* The second of two backfills in a row has ended, over a non-empty local run
\* list whose logs the first one fetched.
C3_Witness ==
    /\ pc = "done"
    /\ hist.afterClean
    /\ Len(hist.localAtStart) >= 2
    /\ LocalIds \subseteq DOMAIN PersistedLogs

\* The map a backfill has to persist: what was stored, and the remote log of
\* every run id that was missing.
ExpectedLogs ==
    [r \in (DOMAIN hist.before) \cup MissingAtStart |->
        IF r \in DOMAIN hist.before THEN hist.before[r] ELSE RemoteLog(r)]

\* C4: whatever the pool size and the interleaving of the workers, a backfill
\* that is not interrupted persists the same map: the stored logs plus the
\* remote log of every missing run id.
C4_PoolIndependent ==
    (pc = "done" /\ hist.prevClean) => file["logs"] = json_dumps(ExpectedLogs)

\* A single worker has completed a backfill of at least two missing run ids.
C4_Witness ==
    /\ pc = "done"
    /\ hist.prevClean
    /\ pool = 1
    /\ Cardinality(MissingAtStart) >= 2

\* The fairness of the event loop: the supervising loop goes on when it can;
\* a worker that is ready runs, and a fetch that was started returns or
\* raises, while the loop sleeps or waits in join (strong fairness: the
\* workers cannot run in the instants the loop itself runs).  No fairness
\* for the caller's operations or for an interrupt.
FairSpec ==
    /\ Spec
    /\ WF_vars(LoopTest)
    /\ WF_vars(Wake)
    /\ WF_vars(JoinDone)
    /\ \A w \in 1..NumWorkers : SF_vars(WorkerGet(w))
    /\ \A w \in 1..NumWorkers : SF_vars(WorkerStore(w) \/ WorkerFail(w))

\* C5: a fetch that fails does not abort the backfill: unless the user
\* interrupts it, update_run_logs comes to its end with the failed run left
\* without a log and every other missing run persisted.
C5_FailureTolerated ==
    (hist.failed # {}) ~>
        (/\ pc = "done"
         /\ \/ hist.interrupted
            \/ /\ ret.exc # "GlobusAPIError"
               /\ \A r \in MissingAtStart \ hist.failed :
                     r \in DOMAIN PersistedLogs
               /\ \A r \in hist.failed : r \notin DOMAIN PersistedLogs)

\* C6: the run ids a backfill fetches are the run ids of the local run list
\* without a stored log at its start, each fetched at most once; a completed
\* backfill has fetched every one of them.
C6_FetchesExactlyMissing ==
    /\ \A r \in RunIds : hist.starts[r] <= 1
    /\ \A r \in RunIds : hist.starts[r] > 0 => r \in MissingAtStart
    /\ hist.fetched \subseteq {r \in RunIds : hist.starts[r] > 0}
    /\ (pc = "done" /\ hist.prevClean) =>
          {r \in RunIds : hist.starts[r] = 1} = MissingAtStart

\* A completed backfill over a local run list of which one run had a stored
\* log and two had none.
C6_Witness ==
    /\ pc = "done"
    /\ hist.prevClean
    /\ DOMAIN hist.before # {}
    /\ Cardinality(MissingAtStart) >= 2
    /\ hist.fetched = MissingAtStart

\* The greatest completion_time of a non-empty list of runs.
MaxCompletion(runs) ==
    CHOOSE t \in {runs[i].completion_time : i \in DOMAIN runs} :
        \A i \in DOMAIN runs : runs[i].completion_time <= t

\* The completion_time of the most recently completed of the remote runs 1..n.
RemoteLatest(n) ==
    CHOOSE t \in {CompletionTime(r) : r \in 1..n} :
        \A r \in 1..n : CompletionTime(r) <= t

\* C7: summary() reports cache_up_to_date exactly when the local run list is
\* not empty and its greatest completion_time is the completion_time of the
\* remote's most recently completed run.
C7_UpToDateIffSameTime ==
    (ret.op = "summary" /\ ret.exc = "") =>
        (ret.cache_up_to_date <=>
            /\ ret.runs # <<>>
            /\ MaxCompletion(ret.runs) = RemoteLatest(ret.remote))

\* summary() reported up to date on a local list of runs with different
\* completion times.
C7_Witness ==
    /\ ret.op = "summary"
    /\ ret.exc = ""
    /\ ret.cache_up_to_date
    /\ \E i, j \in DOMAIN ret.runs :
          ret.runs[i].completion_time # ret.runs[j].completion_time

\* C8: when the remote holds no run and the local snapshots are readable,
\* summary() does not fail and reports up to date exactly when the local run
\* list is empty.
C8_EmptyRemote ==
    (ret.op = "summary" /\ ret.remote = 0 /\ ret.exc # "JSONDecodeError") =>
        /\ ret.exc = ""
        /\ ret.cache_up_to_date <=> (ret.runs = <<>>)

ReadOps == {"runs", "flows", "get_run_logs"}

\* The object functools.cache holds for the run-log snapshot has been changed
\* in place by a worker since it was loaded.
MutatedInPlace == aliased /\ run_logs # hist.before

C10_UnreadableIsEmpty ==
    (ret.op \in ReadOps /\ file[ret.file].kind # "json") =>
        /\ ret.exc = ""
        /\ IF ret.op = "get_run_logs" THEN ret.val.tag = "none"
           ELSE ret.val = <<>>

\* ---------------------------------------------------------------------------
\* FlowInfo: the extractors and the aggregation (flow_info.py)
\* ---------------------------------------------------------------------------

MaxLogLen == 3     \* longest run log drawn for the extractors
MaxAggRuns == 2    \* longest run list drawn for the aggregation

\* A Python dict of a metrics row: the key f"{name}_{field}" is <<name, field>>,
\* "total_bytes_transferred" is <<"total", "bytes_transferred">>, and the keys
\* 'start' and 'end' of the run are <<"run", "start">> and <<"run", "end">>.
EmptyDict == [k \in {} |-> 0]

\* dict.update(other)
Update(d, other) ==
    [k \in (DOMAIN d) \cup (DOMAIN other) |->
        IF k \in DOMAIN other THEN other[k] ELSE d[k]]

\* An entry of a run log: its code, its time, and in its details the
\* state_name (when named) and the output of the action (when output).
Entry(code, named, name, output, b, f, k) ==
    [code |-> code, time |-> 0, named |-> named, state_name |-> name,
     output |-> output, bytes_transferred |-> b, files_transferred |-> f,
     files_skipped |-> k]

Started(name) == Entry("ActionStarted", TRUE, name, FALSE, 0, 0, 0)
Completed(name, b, f, k) == Entry("ActionCompleted", TRUE, name, TRUE, b, f, k)
FlowStarted == Entry("FlowStarted", FALSE, "", FALSE, 0, 0, 0)
CompletedUnnamed == Entry("ActionCompleted", FALSE, "", TRUE, 0, 0, 0)
CompletedNoOutput == Entry("ActionCompleted", TRUE, "A", FALSE, 0, 0, 0)

\* The entries the logs are made of: steps A and D are transfers, B is a
\* compute step.
Entries ==
    {Started("A"), Completed("A", 5, 2, 0), Started("D"), Completed("D", 3, 1, 1),
     Started("B"), Completed("B", 0, 0, 0), FlowStarted, CompletedUnnamed,
     CompletedNoOutput}

\* The service stamps the entries of a log in the order they happened.
Stamp(es) == [x \in 1..Len(es) |-> [es[x] EXCEPT !.time = x]]

\* What get_run_logs hands to the extractors: a log, or None.
SomeLog(es) == [tag |-> "log", log |-> Stamp(es)]
NoLog == [tag |-> "none", log |-> <<>>]

\* 'Action' in code
HasAction(code) == code \in {"ActionStarted", "ActionCompleted"}

Raise(e) == [exc |-> e, val |-> EmptyDict]
Ok(v) == [exc |-> "", val |-> v]

\* The loop of _extract_step_times from entry x on.
RECURSIVE step_times_loop(_, _, _, _)
step_times_loop(mylogs, x, res, steps) ==
    IF x > Len(mylogs) THEN [exc |-> "", res |-> res, steps |-> steps]
    ELSE LET e == mylogs[x] IN
        IF ~HasAction(e.code) THEN step_times_loop(mylogs, x + 1, res, steps)
        ELSE IF ~e.named THEN [exc |-> "KeyError", res |-> res, steps |-> steps]
        ELSE IF e.code = "ActionStarted"
             THEN step_times_loop(mylogs, x + 1,
                                  Put(res, <<e.state_name, "start">>, e.time),
                                  Append(steps, e.state_name))
             ELSE step_times_loop(mylogs, x + 1,
                                  Put(res, <<e.state_name, "end">>, e.time),
                                  steps)

\* _extract_step_times(flow_logs): (res, steps), or the exception raised.
_extract_step_times(flow_logs) ==
    IF flow_logs.tag = "none"
    THEN [exc |-> "TypeError", res |-> EmptyDict, steps |-> <<>>]
    ELSE step_times_loop(flow_logs.log, 1, EmptyDict, <<>>)

\* The comprehension of filter_log_entries from entry x on.
RECURSIVE filter_loop(_, _, _, _, _)
filter_loop(entries, x, filter_state_names, filter_codes, acc) ==
    IF x > Len(entries) THEN [exc |-> "", val |-> acc]
    ELSE LET e == entries[x] IN
        IF e.code \notin filter_codes
        THEN filter_loop(entries, x + 1, filter_state_names, filter_codes, acc)
        ELSE IF filter_state_names = {}
        THEN filter_loop(entries, x + 1, filter_state_names, filter_codes,
                         Append(acc, e))
        ELSE IF ~e.named THEN [exc |-> "KeyError", val |-> <<>>]
        ELSE filter_loop(entries, x + 1, filter_state_names, filter_codes,
                         IF e.state_name \in filter_state_names
                         THEN Append(acc, e) ELSE acc)

filter_log_entries(run_log, filter_state_names, filter_codes) ==
    IF run_log.tag = "none" THEN [exc |-> "TypeError", val |-> <<>>]
    ELSE filter_loop(run_log.log, 1, filter_state_names, filter_codes, <<>>)

Counters == {"bytes_transferred", "files_transferred", "files_skipped"}

\* transfer_usage as extract_bytes_transferred starts it.
transfer_usage == [k \in {<<"total", c>> : c \in Counters} |-> 0]

\* The body of the loop of extract_bytes_transferred for the entry lg of step
\* lg.state_name: the keys of the step are assigned, the totals are added to.
CountEntry(usage, lg) ==
    [k \in (DOMAIN usage) \cup {<<lg.state_name, c>> : c \in Counters} |->
        IF k[1] = lg.state_name THEN lg[k[2]]
        ELSE IF k[1] = "total" THEN usage[k] + lg[k[2]]
        ELSE usage[k]]

RECURSIVE bytes_loop(_, _, _)
bytes_loop(flogs, x, usage) ==
    IF x > Len(flogs) THEN Ok(usage)
    ELSE LET lg == flogs[x] IN
        IF ~lg.output THEN Raise("KeyError")
        ELSE IF ~lg.named THEN bytes_loop(flogs, x + 1, usage)
        ELSE bytes_loop(flogs, x + 1, CountEntry(usage, lg))

extract_bytes_transferred(flow_logs, filter_state_names) ==
    IF filter_state_names = {} THEN Ok(transfer_usage)
    ELSE LET flogs == filter_log_entries(flow_logs, filter_state_names,
                                         {"ActionCompleted"})
         IN IF flogs.exc # "" THEN Raise(flogs.exc)
            ELSE bytes_loop(flogs.val, 1, transfer_usage)

\* The loop of extract_compute_time: stats[name] = {"start": ...} on a start,
\* stats[name]["end"] = ... on a completion.
NoStats == [n \in {} |-> [start |-> 0, ended |-> FALSE, end |-> 0]]

RECURSIVE stats_loop(_, _, _)
stats_loop(flogs, x, stats) ==
    IF x > Len(flogs) THEN [exc |-> "", val |-> stats]
    ELSE LET lg == flogs[x] IN
        IF lg.code = "ActionStarted"
        THEN stats_loop(flogs, x + 1,
                        Put(stats, lg.state_name,
                            [start |-> lg.time, ended |-> FALSE, end |-> 0]))
        ELSE IF lg.state_name \notin DOMAIN stats
        THEN [exc |-> "KeyError", val |-> stats]
        ELSE stats_loop(flogs, x + 1,
                        [stats EXCEPT ![lg.state_name].ended = TRUE,
                                      ![lg.state_name].end = lg.time])

RECURSIVE SumOver(_, _)
SumOver(d, keys) ==
    IF keys = {} THEN 0
    ELSE LET k == CHOOSE k \in keys : TRUE IN d[k] + SumOver(d, keys \ {k})

\* sum(compute_times.values())
sum_values(d) == SumOver(d, DOMAIN d)

\* The dict comprehension and the total that end extract_compute_time.
compute_times(stats) ==
    LET times == [k \in {<<n, "compute_time">> : n \in DOMAIN stats} |->
                     stats[k[1]].end - stats[k[1]].start]
    IN Put(times, <<"total", "compute_time">>, sum_values(times))

extract_compute_time(flow_logs, filter_state_names) ==
    IF filter_state_names = {} THEN Raise("NameError")
    ELSE LET flogs == filter_log_entries(flow_logs, filter_state_names,
                                         {"ActionStarted", "ActionCompleted"})
         IN IF flogs.exc # "" THEN Raise(flogs.exc)
            ELSE LET stats == stats_loop(flogs.val, 1, NoStats)
                 IN IF stats.exc # "" THEN Raise(stats.exc)
                    ELSE IF \E n \in DOMAIN stats.val : ~stats.val[n].ended
                    THEN Raise("KeyError")
                    ELSE Ok(compute_times(stats.val))

\* ---------------------------------------------------------------------------
\* The extractors applied to one run log
\* ---------------------------------------------------------------------------

Logs == UNION {[1..n -> Entries] : n \in 0..MaxLogLen}

\* The names the callers filter on: the transfer steps, and the compute steps,
\* of a flow (or none).
TransferFilters == {{}, {"A"}, {"A", "D"}}
ComputeFilters == {{}, {"B"}}

NoOut == [op |-> "none"]

\* Nothing happens in the cache while the extractors are looked at.
CacheAtRest == InitWith(NumWorkers) /\ file = [f \in Files |-> Missing]

InitLog ==
    /\ CacheAtRest
    /\ \E flow_logs \in {NoLog} \cup {SomeLog(es) : es \in Logs} :
          fi = [mode |-> "log", flow_logs |-> flow_logs, out |-> NoOut]

Extract(out) ==
    /\ fi.mode = "log"
    /\ fi.out = NoOut
    /\ fi' = [fi EXCEPT !.out = out]
    /\ UNCHANGED <<file, cache, nRemote, pc, pool, queue, unfinished, workers,
                   run_logs, aliased, initial_size, hasCallback, progress, ret,
                   hist>>

ExtractStepTimes ==
    Extract([op |-> "_extract_step_times",
             r |-> _extract_step_times(fi.flow_logs)])

ExtractBytesTransferred ==
    \E names \in TransferFilters :
        Extract([op |-> "extract_bytes_transferred", names |-> names,
                 r |-> extract_bytes_transferred(fi.flow_logs, names)])

ExtractComputeTime ==
    \E names \in ComputeFilters :
        Extract([op |-> "extract_compute_time", names |-> names,
                 r |-> extract_compute_time(fi.flow_logs, names)])

NextLog == ExtractStepTimes \/ ExtractBytesTransferred \/ ExtractComputeTime

SpecLog == InitLog /\ [][NextLog]_vars

\* The names of the steps a log starts, each once, in the order of their first
\* start entry.
RECURSIVE FirstStarts(_, _, _)
FirstStarts(es, x, seen) ==
    IF x > Len(es) THEN <<>>
    ELSE IF es[x].code = "ActionStarted" /\ es[x].state_name \notin seen
    THEN <<es[x].state_name>> \o FirstStarts(es, x + 1, seen \cup {es[x].state_name})
    ELSE FirstStarts(es, x + 1, seen)

Extracted(op) == fi.mode = "log" /\ fi.out.op = op

\* C14: the step list _extract_step_times returns holds each step name at most
\* once, in the order of the first start entry of each step.
C14_StepsOnceInStartOrder ==
    (Extracted("_extract_step_times") /\ fi.out.r.exc = "") =>
        fi.out.r.steps = FirstStarts(fi.flow_logs.log, 1, {})

\* The per-step keys of one counter in a transfer result.
StepKeys(d, c) == {k \in DOMAIN d : k[2] = c /\ k[1] # "total"}

\* C15: every total transfer counter is the sum of the per-step counters of
\* the same kind, and only steps of the transfer filter have counters.
C15_TotalsAreStepSums ==
    (Extracted("extract_bytes_transferred") /\ fi.out.r.exc = "") =>
        /\ \A c \in Counters :
              fi.out.r.val[<<"total", c>>] = SumOver(fi.out.r.val, StepKeys(fi.out.r.val, c))
        /\ \A k \in DOMAIN fi.out.r.val : k[1] \in fi.out.names \cup {"total"}

\* An entry with a step name in its details and, when it completes an action,
\* with the output of the action.
Complete(e) == e.named /\ (e.code = "ActionCompleted" => e.output)

\* The log without the entries that lack a step name or an output.
WithoutIncomplete(flow_logs) ==
    [tag |-> "log", log |-> SelectSeq(flow_logs.log, Complete)]

\* C16: the transfer extraction never raises on an entry that lacks a step
\* name or an output: it counts as if the entry were not in the log.
C16_IncompleteEntrySkipped ==
    (Extracted("extract_bytes_transferred") /\ fi.flow_logs.tag = "log") =>
        /\ fi.out.r.exc = ""
        /\ fi.out.r = extract_bytes_transferred(WithoutIncomplete(fi.flow_logs),
                                                fi.out.names)

\* The times of the entries of step n with the given code.
TimesOf(es, code, n) ==
    {es[x].time : x \in {y \in 1..Len(es) :
        es[y].code = code /\ es[y].named /\ es[y].state_name = n}}

\* Step n starts once and completes once, later, in the log.
StartEndPair(es, n) ==
    /\ Cardinality(TimesOf(es, "ActionStarted", n)) = 1
    /\ Cardinality(TimesOf(es, "ActionCompleted", n)) = 1
    /\ \A a \in TimesOf(es, "ActionStarted", n) :
          \A b \in TimesOf(es, "ActionCompleted", n) : a < b

\* completed - started of a step that is a start/end pair.
Elapsed(es, n) ==
    (CHOOSE b \in TimesOf(es, "ActionCompleted", n) : TRUE)
        - (CHOOSE a \in TimesOf(es, "ActionStarted", n) : TRUE)

\* C18: the compute extraction of a log whose compute steps are start/end
\* pairs gives {step}_compute_time = completed - started for each such step
\* and their sum as total_compute_time; with no compute step in the filter it
\* gives total_compute_time = 0 and nothing else.
C18_ComputeTimes ==
    (/\ Extracted("extract_compute_time")
     /\ fi.flow_logs.tag = "log"
     /\ \A x \in 1..Len(fi.flow_logs.log) : Complete(fi.flow_logs.log[x])
     /\ \A n \in fi.out.names : StartEndPair(fi.flow_logs.log, n)) =>
        /\ fi.out.r.exc = ""
        /\ fi.out.r.val =
              Put([k \in {<<n, "compute_time">> : n \in fi.out.names} |->
                      Elapsed(fi.flow_logs.log, k[1])],
                  <<"total", "compute_time">>,
                  SumOver([n \in fi.out.names |-> Elapsed(fi.flow_logs.log, n)],
                          fi.out.names))

\* ---------------------------------------------------------------------------
\* The aggregation of a run list (_extract_times)
\* ---------------------------------------------------------------------------

transfer_ap_urls ==
    {"https://actions.automate.globus.org/transfer/transfer/",
     "https://transfer.actions.globus.org/transfer/"}
compute_ap_urls == {"https://compute.actions.globus.org"}

Action(url) == [Type |-> "Action", ActionUrl |-> url]
Pass == [Type |-> "Pass", ActionUrl |-> ""]

\* The flows of the cache: flow 1 moves data in A and D, computes in B and
\* has a state that is no action; flow 3 only moves data. No flow has id 2.
CachedFlows ==
    << [id |-> 1,
        States |-> [x \in {"A", "D", "B", "P"} |->
            CASE x = "A" -> Action("https://transfer.actions.globus.org/transfer/")
              [] x = "D" -> Action("https://actions.automate.globus.org/transfer/transfer/")
              [] x = "B" -> Action("https://compute.actions.globus.org")
              [] OTHER -> Pass]],
       [id |-> 3,
        States |-> [x \in {"A"} |->
            Action("https://transfer.actions.globus.org/transfer/")]] >>

\* get_step_types(flow_id): {state: ActionUrl} of the first flow with this id,
\* or ValueError.
get_step_types(flow_id) ==
    LET found == {i \in 1..Len(CachedFlows) : CachedFlows[i].id = flow_id}
    IN IF found = {} THEN [exc |-> "ValueError", val |-> <<>>]
       ELSE LET flow_dfn == CachedFlows[CHOOSE i \in found : \A j \in found : i <= j]
            IN [exc |-> "",
                val |-> [x \in {y \in DOMAIN flow_dfn.States :
                                    flow_dfn.States[y].Type = "Action"} |->
                            flow_dfn.States[x].ActionUrl]]

filter_ap_states(flow_id, action_provider_urls) ==
    LET steps == get_step_types(flow_id).val
    IN {state_name \in DOMAIN steps : steps[state_name] \in action_provider_urls}

\* The names the run is filtered on: the states of the provider, narrowed to
\* the states the object was made with when there are any.
Filtered(flow_id, urls, states) ==
    IF states # {} THEN filter_ap_states(flow_id, urls) \cap states
    ELSE filter_ap_states(flow_id, urls)

\* self.cache.get_run_logs(run_id) on the run logs of the cache.
LogOf(logs, run_id) ==
    IF run_id \in DOMAIN logs THEN SomeLog(logs[run_id]) ELSE NoLog

\* One pass of the loop of _extract_times for a run that SUCCEEDED: the row
\* flow_res, or the exception that leaves the loop.
flow_res(flow_run, logs, transfer_states, compute_states) ==
    LET step_types == get_step_types(flow_run.flow_id)
        flow_logs == LogOf(logs, flow_run.run_id)
        flow_steps == _extract_step_times(flow_logs)
        bytes_transferred ==
            extract_bytes_transferred(flow_logs,
                Filtered(flow_run.flow_id, transfer_ap_urls, transfer_states))
        compute_stats ==
            extract_compute_time(flow_logs,
                Filtered(flow_run.flow_id, compute_ap_urls, compute_states))
        times == [k \in {<<"run", "start">>, <<"run", "end">>} |->
                     IF k[2] = "start" THEN flow_run.start_time
                     ELSE flow_run.completion_time]
    IN IF step_types.exc # "" THEN Raise(step_types.exc)
       ELSE IF flow_steps.exc # "" THEN Raise(flow_steps.exc)
       ELSE IF bytes_transferred.exc # "" THEN Raise(bytes_transferred.exc)
       ELSE IF compute_stats.exc # "" THEN Raise(compute_stats.exc)
       ELSE Ok(Update(Update(Update(times, flow_steps.res),
                             bytes_transferred.val), compute_stats.val))

\* pd.concat([all_res, flowdf], ignore_index=True): the row gets the next
\* index. Each row also remembers the run it was made from.
concat(all_res, row, run_id) ==
    Append(all_res, [index |-> Len(all_res), row |-> row, run_id |-> run_id])

StartOf(r) == r.row[<<"run", "start">>]

\* sort_values(by=['start']): the rows by ascending start, each keeping its
\* index label.
RECURSIVE InsertByStart(_, _)
InsertByStart(rows, r) ==
    IF rows = <<>> THEN <<r>>
    ELSE IF StartOf(r) < StartOf(Head(rows)) THEN <<r>> \o rows
    ELSE <<Head(rows)>> \o InsertByStart(Tail(rows), r)

RECURSIVE SortFrom(_, _, _)
SortFrom(rows, x, acc) ==
    IF x > Len(rows) THEN acc
    ELSE SortFrom(rows, x + 1, InsertByStart(acc, rows[x]))

\* The rows left in the order they were made.
sort_values_unsorted(rows) == rows

sort_values(rows) == SortFrom(rows, 1, <<>>)

\* reset_index(drop=True)
reset_index(rows) == [x \in 1..Len(rows) |-> [rows[x] EXCEPT !.index = x - 1]]

\* The logs of the runs that are aggregated.
GoodLog ==
    <<Started("A"), Completed("A", 5, 2, 0), Started("B"), Completed("B", 0, 0, 0)>>
TwoTransferLog ==
    <<Started("A"), Completed("A", 5, 2, 0), Started("D"), Completed("D", 3, 1, 1),
      Started("B"), Completed("B", 0, 0, 0)>>
InterleavedLog ==
    <<FlowStarted, Started("A"), Started("B"), Completed("B", 0, 0, 0),
      Completed("A", 5, 2, 0)>>
RepeatedLog ==
    <<Started("A"), Completed("A", 5, 2, 0), Started("A"), Completed("A", 5, 2, 0),
      Started("B"), Completed("B", 0, 0, 0)>>
UnfinishedLog == <<Started("A"), Completed("A", 5, 2, 0), Started("B")>>
UnnamedLog ==
    <<Started("A"), Completed("A", 5, 2, 0), CompletedUnnamed, Started("B"),
      Completed("B", 0, 0, 0)>>
TransferOnlyLog == <<Started("A"), Completed("A", 5, 2, 0)>>

RunOf(status, flow_id, start_time, has_log, log) ==
    [status |-> status, flow_id |-> flow_id, start_time |-> start_time,
     has_log |-> has_log, log |-> log]

\* The runs a run list is drawn from: what the service says of the run, and
\* the log the cache holds for it, if any.
RunKinds ==
    {RunOf("SUCCEEDED", 1, 1, TRUE, GoodLog),
     RunOf("SUCCEEDED", 1, 2, TRUE, GoodLog),
     RunOf("SUCCEEDED", 1, 3, TRUE, TwoTransferLog),
     RunOf("SUCCEEDED", 1, 2, TRUE, InterleavedLog),
     RunOf("SUCCEEDED", 1, 1, TRUE, RepeatedLog),
     RunOf("SUCCEEDED", 1, 2, TRUE, UnfinishedLog),
     RunOf("SUCCEEDED", 1, 1, TRUE, UnnamedLog),
     RunOf("SUCCEEDED", 1, 1, FALSE, <<>>),
     RunOf("SUCCEEDED", 2, 1, TRUE, GoodLog),
     RunOf("SUCCEEDED", 3, 2, TRUE, TransferOnlyLog),
     RunOf("FAILED", 1, 1, TRUE, GoodLog),
     RunOf("FAILED", 2, 3, FALSE, <<>>),
     RunOf("INACTIVE", 1, 2, TRUE, UnfinishedLog)}

\* The n-th run of the list, as the cache lists it.
FlowRun(kind, n) ==
    [run_id |-> n, status |-> kind.status, flow_id |-> kind.flow_id,
     start_time |-> kind.start_time, completion_time |-> kind.start_time + 5]

StateLists == {{}, {"A"}, {"B"}}

InitAgg ==
    /\ CacheAtRest
    /\ \E n \in 0..MaxAggRuns : \E kinds \in [1..n -> RunKinds] :
       \E transfer_states \in StateLists : \E compute_states \in StateLists :
          fi = [mode |-> "agg",
                flow_runs |-> [x \in 1..n |-> FlowRun(kinds[x], x)],
                logs |-> [x \in {y \in 1..n : kinds[y].has_log} |-> kinds[x].log],
                transfer_states |-> transfer_states,
                compute_states |-> compute_states,
                x |-> 1, all_res |-> <<>>, st |-> "running", exc |-> "",
                flow_stats |-> <<>>]

AggFrame ==
    UNCHANGED <<file, cache, nRemote, pc, pool, queue, unfinished, workers,
                run_logs, aliased, initial_size, hasCallback, progress, ret,
                hist>>

InLoop == fi.mode = "agg" /\ fi.st = "running" /\ fi.x <= Len(fi.flow_runs)

\* A loop without the test of the status: no run is skipped.
skipped_never(flow_run) == FALSE

\* if flow_run["status"] != "SUCCEEDED": continue
skipped(flow_run) == flow_run.status # "SUCCEEDED"

RowOf(flow_run) ==
    flow_res(flow_run, fi.logs, fi.transfer_states, fi.compute_states)

AggSkip ==
    /\ InLoop
    /\ skipped(fi.flow_runs[fi.x])
    /\ fi' = [fi EXCEPT !.x = @ + 1]
    /\ AggFrame

AggRow ==
    /\ InLoop
    /\ ~skipped(fi.flow_runs[fi.x])
    /\ RowOf(fi.flow_runs[fi.x]).exc = ""
    /\ fi' = [fi EXCEPT !.x = @ + 1,
                        !.all_res = concat(@, RowOf(fi.flow_runs[fi.x]).val,
                                           fi.flow_runs[fi.x].run_id)]
    /\ AggFrame

AggRaise ==
    /\ InLoop
    /\ ~skipped(fi.flow_runs[fi.x])
    /\ RowOf(fi.flow_runs[fi.x]).exc # ""
    /\ fi' = [fi EXCEPT !.st = "raised", !.exc = RowOf(fi.flow_runs[fi.x]).exc]
    /\ AggFrame

\* After the loop: the rows are sorted and indexed anew when there are any,
\* and become flow_stats.
AggFinish ==
    /\ fi.mode = "agg" /\ fi.st = "running" /\ fi.x > Len(fi.flow_runs)
    /\ fi' = [fi EXCEPT !.st = "done",
                        !.flow_stats =
                            IF Len(fi.all_res) > 0
                            THEN reset_index(sort_values(fi.all_res))
                            ELSE fi.all_res]
    /\ AggFrame

NextAgg == AggSkip \/ AggRow \/ AggRaise \/ AggFinish

SpecAgg == InitAgg /\ [][NextAgg]_vars

\* The names of the steps the log of a row's run starts.
StepsOf(es) == {es[x].state_name : x \in {y \in 1..Len(es) :
                    es[y].code = "ActionStarted" /\ es[y].named}}

\* The stamped log of the run a row was made from.
LogOfRow(r) == Stamp(fi.logs[r.run_id])

\* C11: the row of a run whose log has a start/end pair for each of its steps
\* holds {step}_step_time = end - start for each step of the log and
\* total_step_time, the sum of these.
C11_StepTimes ==
    fi.mode = "agg" =>
        \A x \in 1..Len(fi.all_res) :
            LET r == fi.all_res[x]
                es == LogOfRow(r)
            IN (\A n \in StepsOf(es) : StartEndPair(es, n)) =>
                  /\ \A n \in StepsOf(es) :
                        /\ <<n, "step_time">> \in DOMAIN r.row
                        /\ r.row[<<n, "step_time">>] = Elapsed(es, n)
                  /\ <<"total", "step_time">> \in DOMAIN r.row
                  /\ r.row[<<"total", "step_time">>] =
                        SumOver([n \in StepsOf(es) |-> Elapsed(es, n)], StepsOf(es))

\* The aggregation of a list of runs none of which is skipped, from run x on.
RECURSIVE Aggregate(_, _, _)
Aggregate(flow_runs, x, all_res) ==
    IF x > Len(flow_runs)
    THEN [st |-> "done", exc |-> "", all_res |-> all_res,
          flow_stats |-> IF Len(all_res) > 0
                         THEN reset_index(sort_values(all_res)) ELSE all_res]
    ELSE IF RowOf(flow_runs[x]).exc # ""
    THEN [st |-> "raised", exc |-> RowOf(flow_runs[x]).exc, all_res |-> all_res,
          flow_stats |-> <<>>]
    ELSE Aggregate(flow_runs, x + 1,
                   concat(all_res, RowOf(flow_runs[x]).val, flow_runs[x].run_id))

Succeeded(flow_run) == flow_run.status = "SUCCEEDED"

AggEnded == fi.mode = "agg" /\ fi.st \in {"done", "raised"}

\* C12: a run whose status is not SUCCEEDED adds no row and changes nothing
\* else: the aggregation ends as it ends on the list without such runs.
C12_NotSucceededNoEffect ==
    /\ fi.mode = "agg" =>
          \A x \in 1..Len(fi.all_res) :
              Succeeded(fi.flow_runs[fi.all_res[x].run_id])
    /\ AggEnded =>
          [st |-> fi.st, exc |-> fi.exc, all_res |-> fi.all_res,
           flow_stats |-> fi.flow_stats]
              = Aggregate(SelectSeq(fi.flow_runs, Succeeded), 1, <<>>)

\* An aggregation came to its end with rows, over a list with a run that had
\* not SUCCEEDED.
C12_Witness ==
    /\ fi.mode = "agg" /\ fi.st = "done"
    /\ Len(fi.flow_stats) > 0
    /\ \E x \in 1..Len(fi.flow_runs) : ~Succeeded(fi.flow_runs[x])

\* The run the aggregation is at has a flow the cache knows.
FlowKnown(flow_run) == get_step_types(flow_run.flow_id).exc = ""

\* C13: a SUCCEEDED run whose log is not in the cache adds no row and the
\* aggregation goes on to the next run without an error.
C13_MissingLogSkipped ==
    fi.mode = "agg" =>
        /\ \A x \in 1..Len(fi.all_res) : fi.all_res[x].run_id \in DOMAIN fi.logs
        /\ (fi.st = "raised" /\ FlowKnown(fi.flow_runs[fi.x])) =>
              fi.flow_runs[fi.x].run_id \in DOMAIN fi.logs

\* C17: a run whose flow definition is not in the cache adds no row and the
\* aggregation goes on to the next run instead of ending.
C17_UnknownFlowSkipped ==
    fi.mode = "agg" =>
        /\ \A x \in 1..Len(fi.all_res) :
              FlowKnown(fi.flow_runs[fi.all_res[x].run_id])
        /\ fi.st = "raised" => FlowKnown(fi.flow_runs[fi.x])

\* C19: when the aggregation has ended, the rows are in non-decreasing order
\* of start and are indexed 0, 1, 2, ... without gaps.
C19_SortedAndIndexed ==
    (fi.mode = "agg" /\ fi.st = "done") =>
        \A x \in 1..Len(fi.flow_stats) :
            /\ fi.flow_stats[x].index = x - 1
            /\ x < Len(fi.flow_stats) =>
                  StartOf(fi.flow_stats[x]) <= StartOf(fi.flow_stats[x + 1])

\* An aggregation ended whose rows were made in decreasing order of start.
C19_Witness ==
    /\ fi.mode = "agg" /\ fi.st = "done"
    /\ Len(fi.all_res) >= 2
    /\ StartOf(fi.all_res[1]) > StartOf(fi.all_res[2])

\* ---------------------------------------------------------------------------
\* The progress callback of the backfill
\* ---------------------------------------------------------------------------

\* This step calls the progress callback: in the loop before it sleeps, or
\* once the join is over.
CallbackInvoked ==
    /\ hasCallback
    /\ \/ pc = "loop" /\ pc' = "sleep"
       \/ pc = "join" /\ hist'.prevClean

\* The runs whose fetch has ended, with a log or with an error.
Finished == hist.fetched \cup hist.failed

\* C20: every call of the progress callback passes the number of
\* runs whose fetch has finished and the number of runs that were missing
\* when the backfill started, with 0 <= completed <= total and completed
\* never lower than in the call before.
C20_ProgressCounts ==
    [][CallbackInvoked =>
          /\ progress'[2] = Cardinality(MissingAtStart)
          /\ progress'[1] = Cardinality(Finished)
          /\ 0 <= progress'[1] /\ progress'[1] <= progress'[2]
          /\ progress[1] <= progress'[1]]_vars

\* ---------------------------------------------------------------------------
\* The backfill: its one write, its end, its readers
\* ---------------------------------------------------------------------------

\* The backfill is between the creation of its workers and its end.
InBackfill == pc \in {"loop", "sleep", "join"}

\* C21: while a backfill runs no step, of a worker or of anyone, writes the
\* run-log snapshot; the step that ends the backfill writes the map once,
\* and when this step is not an interrupt every queued run id has been
\* processed by then.
C21_OneWriteBySupervisor ==
    [][InBackfill =>
          IF pc' = "done"
          THEN /\ file' = [file EXCEPT !["logs"] = json_dumps(run_logs)]
               /\ ~hist'.interrupted =>
                     /\ queue = <<>>
                     /\ unfinished = 0
                     /\ MissingAtStart \subseteq DOMAIN run_logs
          ELSE file' = file]_vars

\* A backfill that was not interrupted has ended: the snapshot holds the two
\* logs its workers fetched, written by the step that ended it.
C21_Witness ==
    /\ pc = "done"
    /\ hist.prevClean
    /\ Cardinality(hist.fetched) >= 2
    /\ hist.lastSaved["logs"].saved
    /\ file["logs"] = json_dumps(hist.lastSaved["logs"].doc)
    /\ hist.fetched \subseteq DOMAIN PersistedLogs

\* The program when nobody interrupts the backfill and no fetch raises.
NextUndisturbed ==
    \/ RemoteNewRun
    \/ ReadRuns
    \/ ReadFlows
    \/ ReadRunLogs
    \/ UpdateRuns
    \/ UpdateFlows
    \/ Summary
    \/ Start
    \/ \E w \in 1..pool : WorkerGet(w)
    \/ \E w \in 1..pool : WorkerStore(w)
    \/ LoopTest
    \/ Wake
    \/ JoinDone

\* ... under the fairness of the event loop, every fetch returning in the end.
FairUndisturbed ==
    /\ Init
    /\ [][NextUndisturbed]_vars
    /\ WF_vars(LoopTest)
    /\ WF_vars(Wake)
    /\ WF_vars(JoinDone)
    /\ \A w \in 1..NumWorkers : SF_vars(WorkerGet(w))
    /\ \A w \in 1..NumWorkers : SF_vars(WorkerStore(w))

\* C22: a backfill that nobody interrupts and whose fetches all return comes
\* to its end: update_run_logs has returned, the workers are stopped and the
\* persisted map holds every run id that was missing at the start.
C22_Terminates ==
    InBackfill ~>
        (/\ pc = "done"
         /\ ret = Returned
         /\ workers = Stopped
         /\ MissingAtStart \subseteq DOMAIN PersistedLogs)

\* ---------------------------------------------------------------------------
\* The soft limit of the run-list refresh
\* ---------------------------------------------------------------------------

\* The number of runs of the last of the pages that hold n runs in all.
LastPageLen(n) == ((n - 1) % PageSize) + 1

\* C23: update_runs with a soft limit L > 0 asks for no page once the runs
\* it has accumulated are L or more, persists the runs of the pages it
\* fetched in the order of the remote listing, and the last count it yields
\* is the number of runs it persists.
C23_SoftLimit ==
    (ret.op = "update_runs" /\ ret.limit > 0) =>
        LET saved == hist.lastSaved["runs"].doc
            n == Len(saved)
        IN /\ file["runs"] = json_dumps(saved)
           /\ \E k \in n..nRemote : saved = SubSeq(RemoteRunsDesc(k), 1, n)
           /\ n > 0 => n - LastPageLen(n) < ret.limit
           /\ ret.yields # <<>>
           /\ ret.yields[Len(ret.yields)] = n

\* ---------------------------------------------------------------------------
\* Readers during a backfill
\* ---------------------------------------------------------------------------

\* C24: a read of a run log made while a backfill is in progress returns what
\* the persisted snapshot holds for the run: a log that a worker has fetched
\* and that is not yet in the snapshot file is not returned.
C24_ReadsSeePersistedOnly ==
    (InBackfill /\ ret.op = "get_run_logs" /\ ret.exc = "") =>
        ret.val = get_run_logs(ReadFile(file["logs"]), ret.run_id)

\* ---------------------------------------------------------------------------
\* A step that starts and never completes
\* ---------------------------------------------------------------------------

\* Step n starts once in the log and never completes.
StartOnly(es, n) ==
    /\ Cardinality(TimesOf(es, "ActionStarted", n)) = 1
    /\ TimesOf(es, "ActionCompleted", n) = {}

\* The compute times of the steps of `names` that are start/end pairs.
PairedTimes(es, names) ==
    LET paired == {n \in names : StartEndPair(es, n)}
    IN Put([k \in {<<n, "compute_time">> : n \in paired} |-> Elapsed(es, k[1])],
           <<"total", "compute_time">>,
           SumOver([n \in paired |-> Elapsed(es, n)], paired))

\* C25: a step with a start entry and no completion entry gets a start
\* timestamp and no end timestamp, and the extraction of the compute times
\* does not fail on it: the step is left out of the times and of their sum,
\* and the times of the other steps are produced.
C25_StartWithoutCompletion ==
    /\ (Extracted("_extract_step_times") /\ fi.out.r.exc = "") =>
          \A n \in StepsOf(fi.flow_logs.log) :
              TimesOf(fi.flow_logs.log, "ActionCompleted", n) = {} =>
                  /\ <<n, "start">> \in DOMAIN fi.out.r.res
                  /\ <<n, "end">> \notin DOMAIN fi.out.r.res
    /\ (/\ Extracted("extract_compute_time")
        /\ fi.flow_logs.tag = "log"
        /\ \A x \in 1..Len(fi.flow_logs.log) : Complete(fi.flow_logs.log[x])
        /\ \E n \in fi.out.names : StartOnly(fi.flow_logs.log, n)
        /\ \A n \in fi.out.names :
              StartOnly(fi.flow_logs.log, n) \/ StartEndPair(fi.flow_logs.log, n)) =>
          /\ fi.out.r.exc = ""
          /\ fi.out.r.val = PairedTimes(fi.flow_logs.log, fi.out.names)

\* ---------------------------------------------------------------------------
\* A backfill without a progress callback
\* ---------------------------------------------------------------------------

\* C26: update_run_logs called without a callback, once its queue is drained,
\* has persisted the stored logs and the log of every missing run and
\* returns without raising, as it does with a callback that does nothing.
C26_NoCallbackReturns ==
    (pc = "done" /\ hist.prevClean /\ ~hasCallback) =>
        /\ file["logs"] = json_dumps(ExpectedLogs)
        /\ ret = Returned
====
